---- MODULE Spec2Model ----
(***************************************************************************)
(* Export-map synthesis of xportify (src/src/commands/extract_exports.ts). *)
(*                                                                         *)
(* A string is a sequence of one-character strings, so that endsWith,      *)
(* replace, path.dirname, path.basename, path.extname, path.join and       *)
(* path.relative are computed character by character as the code does.     *)
(* A JavaScript object is a sequence of [k, v] properties in insertion     *)
(* order (an ExportMap: k is the public subpath, v the ExportEntry; an     *)
(* ExportEntry: k is "import", "types" or "style", v the public path or    *)
(* Undefined).                                                             *)
(***************************************************************************)
EXTENDS Integers, Sequences, FiniteSets, TLC

VARIABLES
    fs,                 \* the files on disk (absolute paths)
    source_file_paths,  \* argument of generate_exports_object
    css_file_paths,     \* argument of generate_exports_object
    destination_path,   \* argument of generate_exports_object
    exports,            \* the local accumulator of the running invocation
    pc,                 \* "running" | "returned"
    src_i,              \* iterations of the first loop done
    css_i,              \* iterations of the second loop done
    before,             \* the accumulator as the last iteration found it
    returned,           \* the map the last finished invocation returned
    earlier,            \* the finished invocations: [args, result]
    denied,             \* the paths of the disk whose stat fails (EACCES)
    options,            \* argument of extract_exports
    package_json,       \* what package.json holds on disk
    console,            \* what console.log has printed
    cli_pc,             \* position of extract_exports, of update_package_json_exports
    process_exit        \* the code process.exit was called with, if it was

args == <<source_file_paths, css_file_paths, destination_path>>

\* the state of one invocation of generate_exports_object
synthesis == <<source_file_paths, css_file_paths, destination_path, exports,
               pc, src_i, css_i, before, returned, earlier>>

\* the state of the command around it
command == <<options, package_json, console, cli_pc, process_exit>>

vars == <<fs, denied, synthesis, command>>

-----------------------------------------------------------------------------
(* Strings                                                                 *)

Undefined == <<"undefined">>

SLASH == <<"/">>
DOT == <<".">>
DOT_SLASH == <<".", "/">>
INDEX == <<"i", "n", "d", "e", "x">>
DOT_TS == <<".", "t", "s">>
DOT_TSX == <<".", "t", "s", "x">>
DOT_JS == <<".", "j", "s">>
DOT_D_TS == <<".", "d", ".", "t", "s">>
DOT_CSS == <<".", "c", "s", "s">>
DOT_DOT == <<".", ".">>

\* String.prototype.endsWith
EndsWith(s, suffix) ==
    /\ Len(suffix) <= Len(s)
    /\ SubSeq(s, Len(s) - Len(suffix) + 1, Len(s)) = suffix

\* String.prototype.startsWith
StartsWith(s, prefix) ==
    /\ Len(prefix) <= Len(s)
    /\ SubSeq(s, 1, Len(prefix)) = prefix

\* String.prototype.lastIndexOf(c, from) for one character, 1-based, 0 when absent
RECURSIVE LastIndexFrom(_, _, _)
LastIndexFrom(s, c, from) ==
    IF from = 0 THEN 0
    ELSE IF s[from] = c THEN from
    ELSE LastIndexFrom(s, c, from - 1)

\* String.prototype.lastIndexOf for one character, 1-based, 0 when absent
LastIndexOf(s, c) == LastIndexFrom(s, c, Len(s))

\* s.replace(/\.css$/, "")
StripCssSuffix(s) ==
    IF EndsWith(s, DOT_CSS) THEN SubSeq(s, 1, Len(s) - Len(DOT_CSS)) ELSE s

-----------------------------------------------------------------------------
(* node:path (posix)                                                       *)

\* the last segment of a path
LastSegment(p) == SubSeq(p, LastIndexOf(p, "/") + 1, Len(p))

\* path.dirname
path_dirname(p) ==
    LET i == LastIndexOf(p, "/")
    IN  IF i = 0 THEN DOT
        ELSE IF i = 1 THEN SLASH
        ELSE SubSeq(p, 1, i - 1)

\* path.extname: from the last "." of the last segment, "" when there is none
\* or when it is the segment's first character
path_extname(p) ==
    LET seg == LastSegment(p)
        i == LastIndexOf(seg, ".")
    IN  IF i <= 1 THEN <<>> ELSE SubSeq(seg, i, Len(seg))

\* path.basename(p, ext)
path_basename(p, ext) ==
    LET seg == LastSegment(p)
    IN  IF ext # <<>> /\ seg # ext /\ EndsWith(seg, ext)
        THEN SubSeq(seg, 1, Len(seg) - Len(ext))
        ELSE seg

\* the segments of a path, "" segments (doubled or leading "/") dropped
RECURSIVE Segments(_)
Segments(p) ==
    IF p = <<>> THEN <<>>
    ELSE LET i == LastIndexOf(p, "/")
             seg == SubSeq(p, i + 1, Len(p))
             rest == IF i = 0 THEN <<>> ELSE SubSeq(p, 1, i - 1)
         IN  IF seg = <<>> THEN Segments(rest)
             ELSE Append(Segments(rest), seg)

\* path.normalize on segments: "." dropped, ".." pops (kept at the front of a
\* relative path, dropped at the root of an absolute one)
RECURSIVE NormalizeSegments(_, _)
NormalizeSegments(segs, absolute) ==
    IF segs = <<>> THEN <<>>
    ELSE LET front == NormalizeSegments(SubSeq(segs, 1, Len(segs) - 1), absolute)
             seg == segs[Len(segs)]
         IN  IF seg = DOT THEN front
             ELSE IF seg = DOT_DOT
                  THEN IF front # <<>> /\ front[Len(front)] # DOT_DOT
                       THEN SubSeq(front, 1, Len(front) - 1)
                       ELSE IF absolute THEN front ELSE Append(front, seg)
             ELSE Append(front, seg)

RECURSIVE JoinSegments(_)
JoinSegments(segs) ==
    IF segs = <<>> THEN <<>>
    ELSE IF Len(segs) = 1 THEN segs[1]
    ELSE JoinSegments(SubSeq(segs, 1, Len(segs) - 1)) \o SLASH \o segs[Len(segs)]

IsAbsolute(p) == p # <<>> /\ p[1] = "/"

\* path.normalize
path_normalize(p) ==
    LET body == JoinSegments(NormalizeSegments(Segments(p), IsAbsolute(p)))
    IN  IF IsAbsolute(p) THEN SLASH \o body
        ELSE IF body = <<>> THEN DOT ELSE body

\* path.join of two parts
path_join(a, b) ==
    IF a = <<>> THEN path_normalize(b)
    ELSE IF b = <<>> THEN path_normalize(a)
    ELSE path_normalize(a \o SLASH \o b)

\* path.join of three parts
path_join3(a, b, c) == path_join(path_join(a, b), c)

\* the length of the longest common prefix of two segment lists
RECURSIVE CommonPrefix(_, _)
CommonPrefix(a, b) ==
    IF a = <<>> \/ b = <<>> \/ a[1] # b[1] THEN 0
    ELSE 1 + CommonPrefix(Tail(a), Tail(b))

RECURSIVE Ups(_)
Ups(n) == IF n = 0 THEN <<>> ELSE <<DOT_DOT>> \o Ups(n - 1)

\* path.relative of two absolute paths
path_relative(from, to) ==
    LET f == NormalizeSegments(Segments(from), TRUE)
        t == NormalizeSegments(Segments(to), TRUE)
        n == CommonPrefix(f, t)
    IN  JoinSegments(Ups(Len(f) - n) \o SubSeq(t, n + 1, Len(t)))

-----------------------------------------------------------------------------
(* JavaScript objects: properties in insertion order                       *)

HasKey(obj, key) == \E n \in 1..Len(obj) : obj[n].k = key

\* obj[key], Undefined when the object has no such property
Get(obj, key) ==
    IF HasKey(obj, key)
    THEN obj[CHOOSE n \in 1..Len(obj) : obj[n].k = key].v
    ELSE Undefined

\* an assignment that puts the property last even when the object has it
Put_moving_last(obj, key, value) ==
    Append(SelectSeq(obj, LAMBDA property : property.k # key),
           [k |-> key, v |-> value])

\* obj[key] = value: an existing property keeps its place, a new one is last
Put(obj, key, value) ==
    IF HasKey(obj, key)
    THEN [n \in 1..Len(obj) |->
            IF obj[n].k = key THEN [k |-> key, v |-> value] ELSE obj[n]]
    ELSE Append(obj, [k |-> key, v |-> value])

\* { ...a, ...b }
RECURSIVE ObjectSpread(_, _)
ObjectSpread(a, b) ==
    IF b = <<>> THEN a
    ELSE ObjectSpread(Put(a, b[1].k, b[1].v), Tail(b))

Keys(obj) == [n \in 1..Len(obj) |-> obj[n].k]

-----------------------------------------------------------------------------
(* The file system                                                         *)

\* the project directory and its manifest
ProjectRoot == SLASH \o <<"p">>
PACKAGE_JSON == <<"p", "a", "c", "k", "a", "g", "e">> \o <<".", "j", "s", "o", "n">>
ManifestPath == ProjectRoot \o SLASH \o PACKAGE_JSON

\* the files of the disk: those of the source and output trees, and the
\* manifest when there is one
Files ==
    fs \cup (IF package_json.state = "missing" THEN {} ELSE {ManifestPath})

\* a probe that answers for a path it may not examine as for any other
existsSync_sees_denied(p) ==
    \E f \in Files : f = p \/ StartsWith(f, p \o SLASH)

\* fs.existsSync: a file of the disk, or a directory that holds one; false,
\* with nothing thrown, when the stat fails
existsSync(p) ==
    /\ p \notin denied
    /\ \E f \in Files : f = p \/ StartsWith(f, p \o SLASH)

-----------------------------------------------------------------------------
(* extract_exports.ts: the export-map synthesis                            *)

Null == [null |-> TRUE]

is_index_file(file_path) ==
    \/ file_path = INDEX \o DOT_TS
    \/ file_path = INDEX \o DOT_TSX
    \/ EndsWith(file_path, SLASH \o INDEX \o DOT_TS)
    \/ EndsWith(file_path, SLASH \o INDEX \o DOT_TSX)

\* should_export_file without its has_any_output test
should_export_file_no_output_test(has_import, has_types, file_path) ==
    IF is_index_file(file_path) THEN TRUE ELSE has_import

\* should_export_file without its rule for non-index files
should_export_file_any_output(has_import, has_types, file_path) ==
    has_import \/ has_types

should_export_file(has_import, has_types, file_path) ==
    LET has_any_output == has_import \/ has_types
    IN  IF ~has_any_output THEN FALSE
        ELSE IF is_index_file(file_path) THEN TRUE
        ELSE has_import

\* generate_export_path without its branch for nested index files
generate_export_path_no_nested_index(file_path) ==
    IF file_path = INDEX \o DOT_TS \/ file_path = INDEX \o DOT_TSX
    THEN DOT
    ELSE LET directory == path_dirname(file_path)
             base_name == path_basename(file_path, path_extname(file_path))
         IN  IF directory = DOT
             THEN DOT_SLASH \o base_name
             ELSE DOT_SLASH \o directory \o SLASH \o base_name

\* generate_export_path that knows index.ts only as the root index
generate_export_path_root_ts_only(file_path) ==
    IF file_path = INDEX \o DOT_TS
    THEN DOT
    ELSE IF \/ EndsWith(file_path, SLASH \o INDEX \o DOT_TS)
            \/ EndsWith(file_path, SLASH \o INDEX \o DOT_TSX)
    THEN DOT_SLASH \o path_dirname(file_path)
    ELSE LET directory == path_dirname(file_path)
             base_name == path_basename(file_path, path_extname(file_path))
         IN  IF directory = DOT
             THEN DOT_SLASH \o base_name
             ELSE DOT_SLASH \o directory \o SLASH \o base_name

\* generate_export_path that leaves "./" off a file of the root directory
generate_export_path_bare_root_file(file_path) ==
    IF file_path = INDEX \o DOT_TS \/ file_path = INDEX \o DOT_TSX
    THEN DOT
    ELSE IF \/ EndsWith(file_path, SLASH \o INDEX \o DOT_TS)
            \/ EndsWith(file_path, SLASH \o INDEX \o DOT_TSX)
    THEN DOT_SLASH \o path_dirname(file_path)
    ELSE LET directory == path_dirname(file_path)
             base_name == path_basename(file_path, path_extname(file_path))
         IN  IF directory = DOT
             THEN base_name
             ELSE DOT_SLASH \o directory \o SLASH \o base_name

generate_export_path(file_path) ==
    IF file_path = INDEX \o DOT_TS \/ file_path = INDEX \o DOT_TSX
    THEN DOT
    ELSE IF \/ EndsWith(file_path, SLASH \o INDEX \o DOT_TS)
            \/ EndsWith(file_path, SLASH \o INDEX \o DOT_TSX)
    THEN DOT_SLASH \o path_dirname(file_path)
    ELSE LET directory == path_dirname(file_path)
             base_name == path_basename(file_path, path_extname(file_path))
         IN  IF directory = DOT
             THEN DOT_SLASH \o base_name
             ELSE DOT_SLASH \o directory \o SLASH \o base_name

\* the path find_compiled_js_file probes
compiled_file_path(source_file_path, dest) ==
    LET base_name == path_basename(source_file_path, path_extname(source_file_path))
        directory == path_dirname(source_file_path)
    IN  path_join3(dest, directory, base_name \o DOT_JS)

\* the path find_compiled_types_file probes
compiled_types_path(source_file_path, dest) ==
    LET base_name == path_basename(source_file_path, path_extname(source_file_path))
        directory == path_dirname(source_file_path)
    IN  path_join3(dest, directory, base_name \o DOT_D_TS)

\* find_compiled_js_file with the path taken relative to the output root itself
find_compiled_js_file_from_root(source_file_path, dest) ==
    LET compiled == compiled_file_path(source_file_path, dest)
    IN  IF ~existsSync(compiled) THEN Undefined
        ELSE DOT_SLASH \o path_relative(dest, compiled)

find_compiled_js_file(source_file_path, dest) ==
    LET compiled == compiled_file_path(source_file_path, dest)
    IN  IF ~existsSync(compiled) THEN Undefined
        ELSE DOT_SLASH \o path_relative(path_join(dest, DOT_DOT), compiled)

\* find_compiled_types_file without its existence probe
find_compiled_types_file_unprobed(source_file_path, dest) ==
    LET compiled == compiled_types_path(source_file_path, dest)
    IN  DOT_SLASH \o path_relative(path_join(dest, DOT_DOT), compiled)

find_compiled_types_file(source_file_path, dest) ==
    LET compiled == compiled_types_path(source_file_path, dest)
    IN  IF ~existsSync(compiled) THEN Undefined
        ELSE DOT_SLASH \o path_relative(path_join(dest, DOT_DOT), compiled)

\* process_typescript_file that leaves out of the entry the artifact it did
\* not find
process_typescript_file_omitting_absent(file_path, dest) ==
    LET import_path == find_compiled_js_file(file_path, dest)
        types_path == find_compiled_types_file(file_path, dest)
        has_import == import_path # Undefined
        has_types == types_path # Undefined
    IN  IF ~should_export_file(has_import, has_types, file_path) THEN Null
        ELSE [null |-> FALSE,
              export_path |-> generate_export_path(file_path),
              entry |-> SelectSeq(<<[k |-> "types", v |-> types_path],
                                    [k |-> "import", v |-> import_path]>>,
                                  LAMBDA field : field.v # Undefined)]

process_typescript_file(file_path, dest) ==
    LET import_path == find_compiled_js_file(file_path, dest)
        types_path == find_compiled_types_file(file_path, dest)
        has_import == import_path # Undefined
        has_types == types_path # Undefined
    IN  IF ~should_export_file(has_import, has_types, file_path) THEN Null
        ELSE [null |-> FALSE,
              export_path |-> generate_export_path(file_path),
              entry |-> <<[k |-> "types", v |-> types_path],
                          [k |-> "import", v |-> import_path]>>]

\* process_css_file with the stylesheet under "import", as a module's runtime file
process_css_file_import_field(file_path, dest) ==
    LET style_path ==
            DOT_SLASH \o path_relative(path_join(dest, DOT_DOT), path_join(dest, file_path))
    IN  [null |-> FALSE,
         export_path |-> DOT_SLASH \o file_path,
         entry |-> <<[k |-> "import", v |-> style_path]>>]

process_css_file(file_path, dest) ==
    LET style_path ==
            DOT_SLASH \o path_relative(path_join(dest, DOT_DOT), path_join(dest, file_path))
        export_path ==
            IF file_path = INDEX \o DOT_CSS
            THEN DOT_SLASH \o INDEX \o DOT_CSS
            ELSE DOT_SLASH \o file_path
    IN  [null |-> FALSE,
         export_path |-> export_path,
         entry |-> <<[k |-> "style", v |-> style_path]>>]

\* the first loop without its test of the extension
module_iteration_any_extension(map, file_path, dest) ==
    LET result == process_typescript_file(file_path, dest)
    IN  IF result.null THEN map
        ELSE Put(map, result.export_path, result.entry)

\* the first loop keeping the entry a subpath already has
module_iteration_first_wins(map, file_path, dest) ==
    LET is_typescript == EndsWith(file_path, DOT_TS) \/ EndsWith(file_path, DOT_TSX)
    IN  IF ~is_typescript THEN map
        ELSE LET result == process_typescript_file(file_path, dest)
             IN  IF result.null \/ HasKey(map, result.export_path) THEN map
                 ELSE Put(map, result.export_path, result.entry)

\* one iteration of the first loop of generate_exports_object
module_iteration(map, file_path, dest) ==
    LET is_typescript == EndsWith(file_path, DOT_TS) \/ EndsWith(file_path, DOT_TSX)
    IN  IF ~is_typescript THEN map
        ELSE LET result == process_typescript_file(file_path, dest)
             IN  IF result.null THEN map
                 ELSE Put(map, result.export_path, result.entry)

\* the second loop without its merge: every stylesheet gets its own entry
style_iteration_standalone(map, css_path, dest) ==
    LET result == process_css_file(css_path, dest)
    IN  Put(map, result.export_path, result.entry)

\* one iteration of the second loop of generate_exports_object
style_iteration(map, css_path, dest) ==
    LET result == process_css_file(css_path, dest)
    IN  IF result.null THEN map
        ELSE LET base_export_path == StripCssSuffix(result.export_path)
             IN  IF HasKey(map, base_export_path)
                 THEN Put(map, base_export_path,
                          ObjectSpread(Get(map, base_export_path), result.entry))
                 ELSE Put(map, result.export_path, result.entry)

-----------------------------------------------------------------------------
(* Inputs                                                                  *)

MaxModules == 2

A == <<"a">>
B == <<"b">>

\* source modules, relative to the source tree
ModulePaths ==
    { INDEX \o DOT_TS,
      INDEX \o DOT_TSX,
      A \o DOT_TS,
      A \o SLASH \o B \o DOT_TS,
      A \o SLASH \o B \o SLASH \o INDEX \o DOT_TS,
      A \o SLASH \o B \o SLASH \o INDEX \o DOT_TSX }

\* stylesheets, relative to the output tree
StylePaths ==
    { A \o DOT_CSS,
      A \o SLASH \o B \o DOT_CSS }

\* the output root: an absolute directory, as path.resolve leaves it
OutputRoot == SLASH \o <<"p">> \o SLASH \o <<"o", "u", "t">>

\* the sequences over S of length at most n
SeqsUpTo(S, n) == UNION { [1..m -> S] : m \in 0..n }

\* the sequences over S of length at most n that name no element twice (a
\* directory enumeration names each file once)
Enumerations(S, n) ==
    { q \in SeqsUpTo(S, n) : \A m, o \in 1..Len(q) : m # o => q[m] # q[o] }

Range(q) == { q[n] : n \in 1..Len(q) }

-----------------------------------------------------------------------------
(* generate_exports_object as a process: one step per loop iteration       *)

\* the files the arguments can make the invocation look at, or name; no
\* other file of the disk is ever probed
NamedFiles(modules, styles, dest) ==
    { compiled_file_path(p, dest) : p \in Range(modules) }
        \cup { compiled_types_path(p, dest) : p \in Range(modules) }
        \cup { path_join(dest, s) : s \in Range(styles) }

\* a call of console.log
LogLine(text, data) == [text |-> text, data |-> data]

\* generate_exports_object is called on its own, as the tests call it
NoCommand ==
    /\ options = [project |-> <<>>, src |-> <<>>, dist |-> <<>>, write |-> FALSE]
    /\ package_json = [state |-> "missing", doc |-> <<>>]
    /\ console = <<>>
    /\ cli_pc = "none"
    /\ process_exit = <<>>

\* an invocation with the given arguments starts
Start(modules, styles, dest) ==
    /\ source_file_paths = modules
    /\ css_file_paths = styles
    /\ destination_path = dest
    /\ exports = <<>>
    /\ before = <<>>
    /\ pc = "running"
    /\ src_i = 0
    /\ css_i = 0

Init ==
    /\ \E modules \in Enumerations(ModulePaths, MaxModules),
          styles \in Enumerations(StylePaths, Cardinality(StylePaths)) :
          /\ Start(modules, styles, OutputRoot)
          /\ fs \in SUBSET NamedFiles(modules, styles, OutputRoot)
    /\ returned = <<>>
    /\ earlier = {}
    /\ denied = {}
    /\ NoCommand

\* the first loop with the console.log(file_path) of the earlier command line
ModuleStep_logging ==
    /\ pc = "running"
    /\ src_i < Len(source_file_paths)
    /\ before' = exports
    /\ exports' = module_iteration(exports, source_file_paths[src_i + 1], destination_path)
    /\ src_i' = src_i + 1
    /\ console' = Append(console, LogLine("", source_file_paths[src_i + 1]))
    /\ UNCHANGED <<fs, source_file_paths, css_file_paths, destination_path,
                   pc, css_i, returned, earlier>>
    /\ UNCHANGED <<denied, options, package_json, cli_pc, process_exit>>

\* for (const file_path of source_file_paths) { ... }
ModuleStep ==
    /\ pc = "running"
    /\ src_i < Len(source_file_paths)
    /\ before' = exports
    /\ exports' = module_iteration(exports, source_file_paths[src_i + 1], destination_path)
    /\ src_i' = src_i + 1
    /\ UNCHANGED <<fs, source_file_paths, css_file_paths, destination_path,
                   pc, css_i, returned, earlier>>
    /\ UNCHANGED <<denied, command>>

\* for (const css_path of css_file_paths) { ... }
StyleStep ==
    /\ pc = "running"
    /\ src_i = Len(source_file_paths)
    /\ css_i < Len(css_file_paths)
    /\ before' = exports
    /\ exports' = style_iteration(exports, css_file_paths[css_i + 1], destination_path)
    /\ css_i' = css_i + 1
    /\ UNCHANGED <<fs, source_file_paths, css_file_paths, destination_path,
                   pc, src_i, returned, earlier>>
    /\ UNCHANGED <<denied, command>>

\* return exports
Return ==
    /\ pc = "running"
    /\ src_i = Len(source_file_paths)
    /\ css_i = Len(css_file_paths)
    /\ pc' = "returned"
    /\ returned' = exports
    /\ earlier' = earlier \cup {[args |-> args, result |-> exports]}
    /\ UNCHANGED <<fs, source_file_paths, css_file_paths, destination_path,
                   exports, src_i, css_i, before>>
    /\ UNCHANGED <<denied, command>>

Next == ModuleStep \/ StyleStep \/ Return

Spec == Init /\ [][Next]_vars

-----------------------------------------------------------------------------
(* A caller that invokes generate_exports_object time and again, with      *)
(* arguments of its choice, over a disk that does not change               *)

MaxCalls == 3

AgainModulePaths == { A \o DOT_TS, INDEX \o DOT_TS }
AgainStylePaths == { A \o DOT_CSS }
AgainModuleLists == Enumerations(AgainModulePaths, Cardinality(AgainModulePaths))
AgainStyleLists == Enumerations(AgainStylePaths, Cardinality(AgainStylePaths))

InitAgain ==
    /\ \E modules \in AgainModuleLists, styles \in AgainStyleLists :
          Start(modules, styles, OutputRoot)
    /\ \E modules \in AgainModuleLists, styles \in AgainStyleLists :
          /\ Len(modules) = Cardinality(AgainModulePaths)
          /\ Len(styles) = Cardinality(AgainStylePaths)
          /\ fs \in SUBSET NamedFiles(modules, styles, OutputRoot)
    /\ returned = <<>>
    /\ earlier = {}
    /\ denied = {}
    /\ NoCommand

\* a call after the first: const exports: ExportMap = {} with the accumulator
\* of the call before left where it is
Reinvoke_stale_accumulator ==
    /\ pc = "returned"
    /\ Cardinality(earlier) < MaxCalls
    /\ \E modules \in AgainModuleLists, styles \in AgainStyleLists :
          /\ source_file_paths' = modules
          /\ css_file_paths' = styles
    /\ before' = exports
    /\ pc' = "running"
    /\ src_i' = 0
    /\ css_i' = 0
    /\ UNCHANGED <<fs, destination_path, exports, returned, earlier>>
    /\ UNCHANGED <<denied, command>>

\* a call after the first: const exports: ExportMap = {}
Reinvoke ==
    /\ pc = "returned"
    /\ Cardinality(earlier) < MaxCalls
    /\ \E modules \in AgainModuleLists, styles \in AgainStyleLists :
          /\ source_file_paths' = modules
          /\ css_file_paths' = styles
    /\ exports' = <<>>
    /\ before' = <<>>
    /\ pc' = "running"
    /\ src_i' = 0
    /\ css_i' = 0
    /\ UNCHANGED <<fs, destination_path, returned, earlier>>
    /\ UNCHANGED <<denied, command>>

NextAgain == ModuleStep \/ StyleStep \/ Return \/ Reinvoke

SpecAgain == InitAgain /\ [][NextAgain]_vars

-----------------------------------------------------------------------------
(* Lists with paths that are not modules, and with names that hold one     *)
(* suffix inside another                                                   *)

README_MD == <<"R", "E", "A", "D", "M", "E">> \o <<".", "m", "d">>

\* a document, a JavaScript source, a module named as a stylesheet, a module
OtherModulePaths ==
    { README_MD,
      A \o DOT_JS,
      A \o DOT_CSS \o DOT_TS,
      A \o DOT_TS }

OtherStylePaths ==
    { A \o DOT_CSS,
      A \o DOT_CSS \o DOT_CSS }

InitOther ==
    /\ \E modules \in Enumerations(OtherModulePaths, MaxModules),
          styles \in Enumerations(OtherStylePaths, Cardinality(OtherStylePaths)) :
          /\ Start(modules, styles, OutputRoot)
          /\ fs \in SUBSET NamedFiles(modules, styles, OutputRoot)
    /\ returned = <<>>
    /\ earlier = {}
    /\ denied = {}
    /\ NoCommand

SpecOther == InitOther /\ [][Next]_vars

-----------------------------------------------------------------------------
(* An output tree with paths the process may not examine: a probe of such  *)
(* a path fails with a permission error inside fs.existsSync                *)

DeniedModulePaths == { INDEX \o DOT_TS, A \o DOT_TS }
DeniedStylePaths == { A \o DOT_CSS }

InitDenied ==
    /\ \E modules \in Enumerations(DeniedModulePaths, MaxModules),
          styles \in Enumerations(DeniedStylePaths, Cardinality(DeniedStylePaths)) :
          /\ Start(modules, styles, OutputRoot)
          /\ fs \in SUBSET NamedFiles(modules, styles, OutputRoot)
          /\ denied \in SUBSET NamedFiles(modules, <<>>, OutputRoot)
    /\ returned = <<>>
    /\ earlier = {}
    /\ NoCommand

SpecDenied == InitDenied /\ [][Next]_vars

-----------------------------------------------------------------------------
(* update_package_json_exports                                             *)

ERROR_UPDATING == "Error updating package.json"
SUCCESSFULLY_UPDATED == "Successfully updated package.json with exports configuration."

\* fs.readFileSync with JSON.parse: what the file at the path holds
readFileSync(path) ==
    IF path = ManifestPath THEN package_json
    ELSE [state |-> "missing", doc |-> <<>>]

\* JSON.stringify of an entry: a property whose value is undefined is left out
JSON_entry(entry) == SelectSeq(entry, LAMBDA field : field.v # Undefined)

\* JSON.stringify of a map of entries, as JSON.parse reads it back
JSON_map(map) ==
    [n \in 1..Len(map) |-> [k |-> map[n].k, v |-> JSON_entry(map[n].v)]]

\* JSON.stringify of the manifest, whose other values were read from JSON
JSON_document(doc) ==
    [n \in 1..Len(doc) |->
        IF doc[n].k = "exports"
        THEN [k |-> "exports", v |-> JSON_map(doc[n].v)]
        ELSE doc[n]]

\* update_package_json_exports as the earlier command line has it: the
\* process exits when the manifest cannot be read
update_package_json_exports_exiting(package_json_path, package_exports) ==
    LET manifest == readFileSync(package_json_path)
    IN  IF manifest.state # "document"
        THEN [package_json |-> manifest,
              console |-> <<LogLine(ERROR_UPDATING, <<manifest.state>>)>>,
              process_exit |-> <<1>>]
        ELSE [package_json |->
                  [state |-> "document",
                   doc |-> JSON_document(Put(manifest.doc, "exports", package_exports))],
              console |-> <<LogLine(SUCCESSFULLY_UPDATED, <<>>)>>,
              process_exit |-> <<>>]

\* update_package_json_exports that spreads the map over the exports the
\* manifest has
update_package_json_exports_merging(package_json_path, package_exports) ==
    LET manifest == readFileSync(package_json_path)
        merged == IF HasKey(manifest.doc, "exports")
                  THEN ObjectSpread(Get(manifest.doc, "exports"), package_exports)
                  ELSE package_exports
    IN  IF manifest.state # "document"
        THEN [package_json |-> manifest,
              console |-> <<LogLine(ERROR_UPDATING, <<manifest.state>>)>>,
              process_exit |-> <<>>]
        ELSE [package_json |->
                  [state |-> "document",
                   doc |-> JSON_document(Put(manifest.doc, "exports", merged))],
              console |-> <<LogLine(SUCCESSFULLY_UPDATED, <<>>)>>,
              process_exit |-> <<>>]

\* the manifest, the lines logged and the exit code, if any, after the call
update_package_json_exports(package_json_path, package_exports) ==
    LET manifest == readFileSync(package_json_path)
    IN  IF manifest.state # "document"
        THEN [package_json |-> manifest,
              console |-> <<LogLine(ERROR_UPDATING, <<manifest.state>>)>>,
              process_exit |-> <<>>]
        ELSE [package_json |->
                  [state |-> "document",
                   doc |-> JSON_document(Put(manifest.doc, "exports", package_exports))],
              console |-> <<LogLine(SUCCESSFULLY_UPDATED, <<>>)>>,
              process_exit |-> <<>>]

-----------------------------------------------------------------------------
(* update_package_json_exports called with a map of generate_exports_object, *)
(* on a manifest that is missing, is not JSON, or is a document            *)

ManifestModulePaths == { INDEX \o DOT_TS, A \o DOT_TS }
ManifestStylePaths == { A \o DOT_CSS }
ManifestKeys == { "name", "main", "exports" }

OLD == <<"o", "l", "d">>

\* the exports of a manifest before the call
OldExports ==
    << [k |-> DOT_SLASH \o OLD,
        v |-> << [k |-> "import", v |-> DOT_SLASH \o OLD \o DOT_JS] >>] >>

DocumentValue(key) ==
    IF key = "exports" THEN OldExports
    ELSE IF key = "main" THEN DOT_SLASH \o INDEX \o DOT_JS
    ELSE <<"x">>

\* a manifest that holds an object with the given keys, in this order
Document(keys) ==
    [state |-> "document",
     doc |-> [n \in 1..Len(keys) |-> [k |-> keys[n], v |-> DocumentValue(keys[n])]]]

Missing == [state |-> "missing", doc |-> <<>>]
Unparsable == [state |-> "unparsable", doc |-> <<>>]

InitManifest ==
    /\ \E modules \in Enumerations(ManifestModulePaths, MaxModules),
          styles \in Enumerations(ManifestStylePaths, Cardinality(ManifestStylePaths)) :
          /\ Start(modules, styles, OutputRoot)
          /\ fs \in SUBSET NamedFiles(modules, styles, OutputRoot)
    /\ \/ package_json \in {Missing, Unparsable}
       \/ \E keys \in Enumerations(ManifestKeys, Cardinality(ManifestKeys)) :
             package_json = Document(keys)
    /\ returned = <<>>
    /\ earlier = {}
    /\ denied = {}
    /\ options = [project |-> <<>>, src |-> <<>>, dist |-> <<>>, write |-> FALSE]
    /\ console = <<>>
    /\ cli_pc = "direct"
    /\ process_exit = <<>>

\* update_package_json_exports(package_json_path, result)
DirectUpdate ==
    /\ cli_pc = "direct"
    /\ pc = "returned"
    /\ LET result == update_package_json_exports(ManifestPath, returned)
       IN  /\ package_json' = result.package_json
           /\ console' = console \o result.console
           /\ process_exit' = result.process_exit
           /\ cli_pc' = IF result.process_exit = <<>> THEN "updated" ELSE "exited"
    /\ UNCHANGED <<fs, denied, synthesis, options>>

NextManifest == ModuleStep \/ StyleStep \/ Return \/ DirectUpdate

SpecManifest == InitManifest /\ [][NextManifest]_vars

-----------------------------------------------------------------------------
(* extract_exports                                                         *)

STORIES == <<"s", "t", "o", "r", "i", "e", "s">>
NODE_MODULES == <<"n", "o", "d", "e", "_">> \o <<"m", "o", "d", "u", "l", "e", "s">>
DIST == <<"d", "i", "s", "t">>
VITE_ENV_D_TS == <<"v", "i", "t", "e", "-", "e", "n", "v">> \o DOT_D_TS
SRC == <<"s", "r", "c">>
OUT == <<"o", "u", "t">>

\* String.prototype.includes
Includes(s, sub) ==
    \E n \in 1..(Len(s) - Len(sub) + 1) : SubSeq(s, n, n + Len(sub) - 1) = sub

\* process.cwd()
Cwd == SLASH

\* path.resolve of a directory and a path
path_resolve(from, to) ==
    IF IsAbsolute(to) THEN path_normalize(to) ELSE path_join(from, to)

Validated(data) == [validated |-> TRUE, data |-> data, error |-> ""]
NotValidated(error) == [validated |-> FALSE, data |-> <<>>, error |-> error]

validate_project_path(opts) ==
    IF opts.project = <<>>
    THEN NotValidated("No project path provided. Use --project option.")
    ELSE LET absolute_project_path == path_resolve(Cwd, opts.project)
         IN  IF ~existsSync(absolute_project_path)
             THEN NotValidated("Project directory does not exist.")
             ELSE Validated(absolute_project_path)

validate_package_json(absolute_project_path) ==
    LET package_json_path == path_join(absolute_project_path, PACKAGE_JSON)
    IN  IF ~existsSync(package_json_path)
        THEN NotValidated("package.json file not found.")
        ELSE Validated(package_json_path)

validate_source_path(absolute_project_path, opts) ==
    LET source_path == path_resolve(absolute_project_path, opts.src)
    IN  IF ~existsSync(source_path)
        THEN NotValidated("Source directory does not exist.")
        ELSE Validated(source_path)

validate_destination_path(absolute_project_path, opts) ==
    LET dest == path_resolve(absolute_project_path, opts.dist)
    IN  IF ~existsSync(dest)
        THEN NotValidated("Destination directory does not exist.")
        ELSE Validated(dest)

\* the constants of extract_exports, once validated
AbsoluteProjectPath == validate_project_path(options).data
PackageJsonPath == validate_package_json(AbsoluteProjectPath).data
SourcePath == validate_source_path(AbsoluteProjectPath, options).data
DestinationPath == validate_destination_path(AbsoluteProjectPath, options).data

\* the files under a directory, relative to it
FilesUnder(cwd) ==
    { SubSeq(f, Len(cwd) + 2, Len(f)) :
        f \in { g \in Files : StartsWith(g, cwd \o SLASH) } }

\* a directory of the path has one of the names
InDirectory(rel, names) ==
    \E n \in 1..(Len(Segments(rel)) - 1) : Segments(rel)[n] \in names

\* glob.sync over the source tree, with its ignore list and its filter; the
\* filter on "stories" covers the patterns **/*.stories.* and **/stories/**
glob_source(cwd) ==
    { rel \in FilesUnder(cwd) :
        /\ EndsWith(rel, DOT_TS) \/ EndsWith(rel, DOT_TSX) \/ EndsWith(rel, DOT_JS)
        /\ ~InDirectory(rel, {NODE_MODULES, DIST})
        /\ LastSegment(rel) # VITE_ENV_D_TS
        /\ ~Includes(rel, STORIES) }

\* glob.sync over the output tree
glob_css(cwd) ==
    { rel \in FilesUnder(cwd) :
        /\ EndsWith(rel, DOT_CSS)
        /\ ~InDirectory(rel, {NODE_MODULES})
        /\ ~Includes(rel, STORIES) }

\* the orders in which glob.sync may list a set of files
Orderings(S) ==
    { q \in Enumerations(S, Cardinality(S)) : Len(q) = Cardinality(S) }

\* the source tree and the output tree of the project
CliSourceFiles ==
    { ProjectRoot \o SLASH \o SRC \o SLASH \o INDEX \o DOT_TS,
      ProjectRoot \o SLASH \o SRC \o SLASH \o A \o DOT \o STORIES \o DOT_TS }

CliOutputFiles ==
    { OutputRoot \o SLASH \o INDEX \o DOT_JS,
      OutputRoot \o SLASH \o INDEX \o DOT_D_TS,
      OutputRoot \o SLASH \o A \o DOT_CSS }

CliManifestKeys == { <<"name">>, <<"name", "exports">> }

\* generate_exports_object has not been called
Idle ==
    /\ source_file_paths = <<>>
    /\ css_file_paths = <<>>
    /\ destination_path = <<>>
    /\ exports = <<>>
    /\ before = <<>>
    /\ pc = "idle"
    /\ src_i = 0
    /\ css_i = 0
    /\ returned = <<>>
    /\ earlier = {}

InitCli ==
    /\ fs \in SUBSET (CliSourceFiles \cup CliOutputFiles)
    /\ denied = {}
    /\ \/ package_json \in {Missing, Unparsable}
       \/ \E keys \in CliManifestKeys : package_json = Document(keys)
    /\ \E project \in {<<>>, ProjectRoot}, write \in BOOLEAN :
          options = [project |-> project, src |-> SRC, dist |-> OUT, write |-> write]
    /\ console = <<>>
    /\ cli_pc = "project"
    /\ process_exit = <<>>
    /\ Idle

\* check_validation that logs a failed validation and goes on
check_validation_without_exit(validation, prefix_message) ==
    IF ~validation.validated
    THEN [line |-> LogLine(validation.error, <<>>), process_exit |-> <<>>]
    ELSE [line |-> LogLine(prefix_message, validation.data), process_exit |-> <<>>]

\* check_validation: the line logged and, when the validation failed, the
\* code process.exit is called with
check_validation(validation, prefix_message) ==
    IF ~validation.validated
    THEN [line |-> LogLine(validation.error, <<>>), process_exit |-> <<1>>]
    ELSE [line |-> LogLine(prefix_message, validation.data), process_exit |-> <<>>]

ValidateProject ==
    /\ cli_pc = "project"
    /\ LET checked == check_validation(validate_project_path(options), "Project path:")
       IN  /\ console' = Append(console, checked.line)
           /\ process_exit' = checked.process_exit
           /\ cli_pc' = IF checked.process_exit = <<>> THEN "package_json" ELSE "exited"
    /\ UNCHANGED <<fs, denied, synthesis, options, package_json>>

ValidatePackageJson ==
    /\ cli_pc = "package_json"
    /\ LET checked == check_validation(validate_package_json(AbsoluteProjectPath),
                                       "Package JSON path:")
       IN  /\ console' = Append(console, checked.line)
           /\ process_exit' = checked.process_exit
           /\ cli_pc' = IF checked.process_exit = <<>> THEN "source" ELSE "exited"
    /\ UNCHANGED <<fs, denied, synthesis, options, package_json>>

ValidateSource ==
    /\ cli_pc = "source"
    /\ LET checked == check_validation(validate_source_path(AbsoluteProjectPath, options),
                                       "Source path:")
       IN  /\ console' = Append(console, checked.line)
           /\ process_exit' = checked.process_exit
           /\ cli_pc' = IF checked.process_exit = <<>> THEN "destination" ELSE "exited"
    /\ UNCHANGED <<fs, denied, synthesis, options, package_json>>

ValidateDestination ==
    /\ cli_pc = "destination"
    /\ LET checked ==
               check_validation(validate_destination_path(AbsoluteProjectPath, options),
                                "Destination path:")
       IN  /\ console' = Append(console, checked.line)
           /\ process_exit' = checked.process_exit
           /\ cli_pc' = IF checked.process_exit = <<>> THEN "glob" ELSE "exited"
    /\ UNCHANGED <<fs, denied, synthesis, options, package_json>>

\* the two glob.sync, the return when nothing was found, and the call of
\* generate_exports_object
Enumerate ==
    /\ cli_pc = "glob"
    /\ \E modules \in Orderings(glob_source(SourcePath)),
          styles \in Orderings(glob_css(DestinationPath)) :
          IF modules \o styles = <<>>
          THEN /\ console' = Append(console,
                      LogLine("No JavaScript/TypeScript/CSS files found.", <<>>))
               /\ cli_pc' = "done"
               /\ UNCHANGED synthesis
          ELSE /\ console' = console
               /\ cli_pc' = "synthesis"
               /\ source_file_paths' = modules
               /\ css_file_paths' = styles
               /\ destination_path' = DestinationPath
               /\ exports' = <<>>
               /\ before' = <<>>
               /\ pc' = "running"
               /\ src_i' = 0
               /\ css_i' = 0
               /\ UNCHANGED <<returned, earlier>>
    /\ UNCHANGED <<fs, denied, options, package_json, process_exit>>

\* the lines extract_exports prints of the map
Shown(package_exports) ==
    << LogLine("Generated exports object:", <<>>),
       LogLine("exports", JSON_map(package_exports)),
       LogLine("exports", <<Len(package_exports)>>) >>

\* the end of extract_exports without the test of options.write
Report_always_writes ==
    /\ cli_pc = "synthesis"
    /\ pc = "returned"
    /\ LET result == update_package_json_exports(PackageJsonPath, returned)
       IN  /\ package_json' = result.package_json
           /\ console' = console \o Shown(returned) \o result.console
           /\ process_exit' = result.process_exit
           /\ cli_pc' = IF result.process_exit = <<>> THEN "done" ELSE "exited"
    /\ UNCHANGED <<fs, denied, synthesis, options>>

\* the end of extract_exports: the map is printed, and written when
\* options.write
Report ==
    /\ cli_pc = "synthesis"
    /\ pc = "returned"
    /\ IF options.write
       THEN LET result == update_package_json_exports(PackageJsonPath, returned)
            IN  /\ package_json' = result.package_json
                /\ console' = console \o Shown(returned) \o result.console
                /\ process_exit' = result.process_exit
                /\ cli_pc' = IF result.process_exit = <<>> THEN "done" ELSE "exited"
       ELSE /\ package_json' = package_json
            /\ console' = console \o Shown(returned)
            /\ process_exit' = process_exit
            /\ cli_pc' = "done"
    /\ UNCHANGED <<fs, denied, synthesis, options>>

NextCli ==
    \/ ValidateProject
    \/ ValidatePackageJson
    \/ ValidateSource
    \/ ValidateDestination
    \/ Enumerate
    \/ ModuleStep
    \/ StyleStep
    \/ Return
    \/ Report

SpecCli == InitCli /\ [][NextCli]_vars

-----------------------------------------------------------------------------
(* The vocabulary of the claims                                            *)

HasTsSuffix(p) == EndsWith(p, DOT_TS) \/ EndsWith(p, DOT_TSX)

\* a module path without its .ts or .tsx suffix
Stem(p) ==
    IF EndsWith(p, DOT_TSX) THEN SubSeq(p, 1, Len(p) - 4)
    ELSE IF EndsWith(p, DOT_TS) THEN SubSeq(p, 1, Len(p) - 3)
    ELSE p

IsRootIndex(p) == HasTsSuffix(p) /\ Stem(p) = INDEX
IsDirIndex(p) == HasTsSuffix(p) /\ EndsWith(Stem(p), SLASH \o INDEX)
IsRegularModule(p) == HasTsSuffix(p) /\ ~IsRootIndex(p) /\ ~IsDirIndex(p)

\* the directory of a directory index: a/b for a/b/index.ts
IndexDirectory(p) == SubSeq(Stem(p), 1, Len(Stem(p)) - 6)

\* <output_root>/<dir>/<base>.js and <output_root>/<dir>/<base>.d.ts
RuntimeArtifact(p) == destination_path \o SLASH \o Stem(p) \o DOT_JS
TypeArtifact(p) == destination_path \o SLASH \o Stem(p) \o DOT_D_TS
OnDisk(f) == f \in fs

\* <out>: the last segment of the output root
OutName == LastSegment(destination_path)

\* ./<out>/<rel>: a file of the output tree as seen from the package root
PublicPath(rel) == DOT_SLASH \o OutName \o SLASH \o rel

\* the public subpath section 4.1 of the specification gives a module
PublicSubpath(p) ==
    IF IsRootIndex(p) THEN DOT
    ELSE IF IsDirIndex(p) THEN DOT_SLASH \o IndexDirectory(p)
    ELSE DOT_SLASH \o Stem(p)

\* the last iteration was one of the first loop, over LastModule
ModuleJustDone == src_i > 0 /\ css_i = 0
LastModule == source_file_paths[src_i]

\* the last iteration was one of the second loop, over LastStyle
StyleJustDone == css_i > 0
LastStyle == css_file_paths[css_i]

\* the base subpath of a stylesheet: ./a/b for a/b.css
BaseSubpath(s) ==
    IF EndsWith(s, DOT_CSS)
    THEN DOT_SLASH \o SubSeq(s, 1, Len(s) - 4)
    ELSE DOT_SLASH \o s

\* the fields an entry holds, in order
Fields(entry) == Keys(entry)

-----------------------------------------------------------------------------
(* C1: a module with neither its runtime artifact nor its type artifact    *)
(* in the output tree adds no entry: its iteration leaves the map as it    *)
(* found it, and a run over such modules only, with no stylesheet, returns *)
(* the empty map.                                                          *)
C1_NoArtifactNoEntry ==
    /\ ( /\ ModuleJustDone
         /\ ~OnDisk(RuntimeArtifact(LastModule))
         /\ ~OnDisk(TypeArtifact(LastModule)) )
       => exports = before
    /\ ( /\ pc = "returned"
         /\ css_file_paths = <<>>
         /\ \A p \in Range(source_file_paths) :
               ~OnDisk(RuntimeArtifact(p)) /\ ~OnDisk(TypeArtifact(p)) )
       => returned = <<>>

\* an index module without artifacts was skipped after another was published
C1_Witness ==
    /\ ModuleJustDone
    /\ is_index_file(LastModule)
    /\ ~OnDisk(RuntimeArtifact(LastModule))
    /\ ~OnDisk(TypeArtifact(LastModule))
    /\ before # <<>>
    /\ exports = before

(* C2: a regular (non-index) module whose type artifact exists and whose   *)
(* runtime artifact does not adds no entry, and the returned map has no    *)
(* entry at its subpath unless another module maps to the same subpath.    *)
TypeOnlyRegular(p) ==
    /\ IsRegularModule(p)
    /\ OnDisk(TypeArtifact(p))
    /\ ~OnDisk(RuntimeArtifact(p))

C2_TypeOnlyRegularSkipped ==
    /\ (ModuleJustDone /\ TypeOnlyRegular(LastModule)) => exports = before
    /\ pc = "returned" =>
          \A p \in Range(source_file_paths) :
             ( /\ TypeOnlyRegular(p)
               /\ \A q \in Range(source_file_paths) :
                     q # p => PublicSubpath(q) # PublicSubpath(p) )
             => ~HasKey(returned, PublicSubpath(p))

\* a type-only regular module was listed beside a published one
C2_Witness ==
    /\ pc = "returned"
    /\ returned # <<>>
    /\ \E p \in Range(source_file_paths) :
          /\ TypeOnlyRegular(p)
          /\ ~HasKey(returned, PublicSubpath(p))

(* C3: a directory index a/b/index.ts or a/b/index.tsx whose type artifact *)
(* exists is published under ./a/b, with or without a runtime artifact:    *)
(* its iteration writes the entry there, and the returned map has the key. *)
TypedDirIndex(p) == IsDirIndex(p) /\ OnDisk(TypeArtifact(p))

C3_DirIndexPublished ==
    /\ (ModuleJustDone /\ TypedDirIndex(LastModule)) =>
          /\ HasKey(exports, DOT_SLASH \o IndexDirectory(LastModule))
          /\ Get(Get(exports, DOT_SLASH \o IndexDirectory(LastModule)), "types")
                = PublicPath(Stem(LastModule) \o DOT_D_TS)
    /\ pc = "returned" =>
          \A p \in Range(source_file_paths) :
             TypedDirIndex(p) => HasKey(returned, DOT_SLASH \o IndexDirectory(p))

\* a directory index with a type artifact and no runtime artifact was published
C3_Witness ==
    /\ ModuleJustDone
    /\ TypedDirIndex(LastModule)
    /\ ~OnDisk(RuntimeArtifact(LastModule))
    /\ HasKey(exports, DOT_SLASH \o A \o SLASH \o B)

(* C4: a root index, index.ts or index.tsx alike, with both artifacts      *)
(* present writes exactly one entry, keyed ".", with import                *)
(* ./<out>/index.js and types ./<out>/index.d.ts; alone, it is the map.    *)
FullRootIndex(p) ==
    /\ IsRootIndex(p)
    /\ OnDisk(RuntimeArtifact(p))
    /\ OnDisk(TypeArtifact(p))

C4_RootIndex ==
    /\ (ModuleJustDone /\ FullRootIndex(LastModule)) =>
          /\ HasKey(exports, DOT)
          /\ Get(Get(exports, DOT), "import") = PublicPath(INDEX \o DOT_JS)
          /\ Get(Get(exports, DOT), "types") = PublicPath(INDEX \o DOT_D_TS)
          /\ ~HasKey(Get(exports, DOT), "style")
          /\ Keys(exports) =
                IF HasKey(before, DOT) THEN Keys(before) ELSE Append(Keys(before), DOT)
    /\ ( /\ pc = "returned"
         /\ Len(source_file_paths) = 1
         /\ FullRootIndex(source_file_paths[1])
         /\ css_file_paths = <<>> )
       => Keys(returned) = <<DOT>>

\* index.tsx with both artifacts was published
C4_Witness ==
    /\ ModuleJustDone
    /\ LastModule = INDEX \o DOT_TSX
    /\ FullRootIndex(LastModule)
    /\ HasKey(exports, DOT)

(* C5: a regular module d/n.ts with both artifacts maps to ./d/n (n.ts at  *)
(* the root to ./n, never ././n), with import ./<out>/d/n.js and types     *)
(* ./<out>/d/n.d.ts.                                                       *)
FullRegular(p) ==
    /\ IsRegularModule(p)
    /\ OnDisk(RuntimeArtifact(p))
    /\ OnDisk(TypeArtifact(p))

C5_RegularModule ==
    (ModuleJustDone /\ FullRegular(LastModule)) =>
        /\ HasKey(exports, DOT_SLASH \o Stem(LastModule))
        /\ Get(Get(exports, DOT_SLASH \o Stem(LastModule)), "import")
              = PublicPath(Stem(LastModule) \o DOT_JS)
        /\ Get(Get(exports, DOT_SLASH \o Stem(LastModule)), "types")
              = PublicPath(Stem(LastModule) \o DOT_D_TS)
        /\ ~HasKey(exports, DOT_SLASH \o DOT_SLASH \o Stem(LastModule))

\* a.ts, at the root, and a/b.ts were both published
C5_Witness ==
    /\ ModuleJustDone
    /\ FullRegular(LastModule)
    /\ HasKey(exports, DOT_SLASH \o A)
    /\ HasKey(exports, DOT_SLASH \o A \o SLASH \o B)

(* C6: a stylesheet a/b.css that finds an entry at its base subpath ./a/b  *)
(* is merged into it: the entry keeps its import and types values and      *)
(* gains a style field holding ./<out>/a/b.css; no key is created and no   *)
(* other entry changes.                                                    *)
MergedStyle ==
    /\ StyleJustDone
    /\ EndsWith(LastStyle, DOT_CSS)
    /\ HasKey(before, BaseSubpath(LastStyle))

StandaloneStyle ==
    /\ StyleJustDone
    /\ ~HasKey(before, BaseSubpath(LastStyle))

C8_StyleEntriesAsTested ==
    pc = "returned" =>
        \A s \in Range(css_file_paths) :
           /\ HasKey(returned, DOT_SLASH \o s)
           /\ Get(returned, DOT_SLASH \o s)
                 = <<[k |-> "import", v |-> PublicPath(s)]>>
           /\ HasKey(returned, BaseSubpath(s)) =>
                 Range(Fields(Get(returned, BaseSubpath(s)))) \subseteq {"import", "types"}

(* C9: every import, types and style value of the returned map denotes a   *)
(* file that is on disk under the output root.                             *)
ParentOf(dir) == SubSeq(dir, 1, LastIndexOf(dir, "/") - 1)

\* the file a public path ./<out>/<rel> denotes
DiskPath(public) == ParentOf(destination_path) \o SubSeq(public, 2, Len(public))

C9_RoundTrip ==
    pc = "returned" =>
        \A n \in 1..Len(returned) :
           \A m \in 1..Len(returned[n].v) :
              returned[n].v[m].v # Undefined => OnDisk(DiskPath(returned[n].v[m].v))

(* C9, amended: every import and types value of the returned map denotes   *)
(* a file that is on disk under the output root; a style value denotes     *)
(* <output_root>/s for a listed stylesheet path s, which is not probed: it *)
(* is on disk when the caller listed a file that is.                       *)
C9_ArtifactsOnDisk ==
    pc = "returned" =>
        \A n \in 1..Len(returned) :
           \A m \in 1..Len(returned[n].v) :
              LET field == returned[n].v[m]
              IN  field.v # Undefined =>
                     IF field.k = "style"
                     THEN \E s \in Range(css_file_paths) :
                             DiskPath(field.v) = destination_path \o SLASH \o s
                     ELSE OnDisk(DiskPath(field.v))

\* an entry holds the paths of two artifacts and of a stylesheet not on disk
C9_Witness ==
    /\ pc = "returned"
    /\ \E n \in 1..Len(returned) :
          /\ Get(returned[n].v, "import") # Undefined
          /\ Get(returned[n].v, "types") # Undefined
          /\ Get(returned[n].v, "style") # Undefined
          /\ ~OnDisk(DiskPath(Get(returned[n].v, "style")))

(* C10: two invocations with the same module_paths, style_paths and        *)
(* output_root over an unchanged disk return the same map, keys and fields *)
(* in the same order, whatever was invoked in between.                     *)
C10_SameArgumentsSameMap ==
    /\ \A e1, e2 \in earlier : e1.args = e2.args => e1.result = e2.result
    /\ pc = "returned" => \A e \in earlier : e.args = args => e.result = returned

\* a second invocation with the arguments of an earlier one, after another
\* invocation published something else, is about to return the same map
C10_Witness ==
    /\ pc = "running"
    /\ src_i = Len(source_file_paths)
    /\ css_i = Len(css_file_paths)
    /\ Len(exports) = 2
    /\ \E e \in earlier : e.args = args /\ e.result = exports
    /\ \E e \in earlier : e.args # args /\ e.result # <<>> /\ e.result # exports

(* C11: an invocation with no module path and no stylesheet path returns   *)
(* the empty map, whatever the disk holds and whatever was invoked before. *)
C11_EmptyListsEmptyMap ==
    ( /\ pc = "returned"
      /\ source_file_paths = <<>>
      /\ css_file_paths = <<>> )
    => returned = <<>>

\* the empty lists were given after an invocation that published something,
\* over a disk that holds artifacts
C11_Witness ==
    /\ pc = "returned"
    /\ source_file_paths = <<>>
    /\ css_file_paths = <<>>
    /\ fs # {}
    /\ \E e \in earlier : e.result # <<>>
    /\ returned = <<>>

(* C18: every entry of the map holds at least one of import, types and     *)
(* style with a value that is not undefined.                               *)
HasPresentField(entry) ==
    \E f \in {"import", "types", "style"} : Get(entry, f) # Undefined

C18_EntryHasAField ==
    /\ \A n \in 1..Len(exports) : HasPresentField(exports[n].v)
    /\ pc = "returned" => \A n \in 1..Len(returned) : HasPresentField(returned[n].v)

\* an index module with a type artifact only was published: its import is
\* undefined and its types is not
C18_Witness ==
    /\ pc = "returned"
    /\ \E n \in 1..Len(returned) :
          /\ HasKey(returned[n].v, "import")
          /\ Get(returned[n].v, "import") = Undefined
          /\ Get(returned[n].v, "types") # Undefined

(* C19: every key of the map is "." or "./" followed by a non-empty path.  *)
IsPublicSubpath(key) ==
    \/ key = DOT
    \/ StartsWith(key, DOT_SLASH) /\ Len(key) > Len(DOT_SLASH)

C19_KeysArePublicSubpaths ==
    /\ \A n \in 1..Len(exports) : IsPublicSubpath(exports[n].k)
    /\ pc = "returned" => \A n \in 1..Len(returned) : IsPublicSubpath(returned[n].k)

\* the map holds the root key, a module key and a stylesheet key
C19_Witness ==
    /\ pc = "returned"
    /\ HasKey(returned, DOT)
    /\ HasKey(returned, DOT_SLASH \o A)
    /\ HasKey(returned, DOT_SLASH \o A \o SLASH \o B \o DOT_CSS)

(* C12: a module path that does not end in .ts or .tsx leaves the map as   *)
(* it was, whatever artifacts the output tree holds for it; a path that    *)
(* does end in .ts or .tsx and has both artifacts is never filtered out.   *)
C12_OnlyExtensionFilters ==
    ModuleJustDone =>
        /\ ~HasTsSuffix(LastModule) => exports = before
        /\ ( /\ HasTsSuffix(LastModule)
             /\ OnDisk(RuntimeArtifact(LastModule))
             /\ OnDisk(TypeArtifact(LastModule)) )
           => HasKey(exports, PublicSubpath(LastModule))

\* a JavaScript source whose .js and .d.ts artifacts are both in the output
\* tree has just been passed over
C12_Witness ==
    /\ ModuleJustDone
    /\ ~HasTsSuffix(LastModule)
    /\ OnDisk(compiled_file_path(LastModule, destination_path))
    /\ OnDisk(compiled_types_path(LastModule, destination_path))
    /\ exports = before

(* C20: the public path of every stylesheet processed so far is still the  *)
(* style of some entry: no stylesheet's style is overwritten by another's. *)
C20_NoStyleOverwritten ==
    \A n \in 1..css_i :
        \E m \in 1..Len(exports) :
            Get(exports[m].v, "style") = PublicPath(css_file_paths[n])

(* C13 as stated: a call that probed a path it may not examine raises and  *)
(* returns no map.                                                         *)
ProbedPaths ==
    UNION { { compiled_file_path(source_file_paths[n], destination_path),
              compiled_types_path(source_file_paths[n], destination_path) } :
            n \in { m \in 1..src_i : HasTsSuffix(source_file_paths[m]) } }

SameMap(written, map) ==
    /\ Len(written) = Len(map)
    /\ \A n \in 1..Len(map) :
          /\ written[n].k = map[n].k
          /\ \A f \in {"import", "types", "style"} :
                Get(written[n].v, f) = Get(map[n].v, f)

C15_ExportsReplaced ==
    [][ ( /\ cli_pc = "direct"
          /\ cli_pc' # "direct"
          /\ package_json.state = "document" )
        => /\ package_json'.state = "document"
           /\ HasKey(package_json'.doc, "exports")
           /\ SameMap(Get(package_json'.doc, "exports"), returned)
           /\ Keys(package_json'.doc) =
                 IF HasKey(package_json.doc, "exports")
                 THEN Keys(package_json.doc)
                 ELSE Append(Keys(package_json.doc), "exports")
           /\ \A n \in 1..Len(package_json.doc) :
                 package_json.doc[n].k # "exports"
                     => package_json'.doc[n] = package_json.doc[n]
      ]_vars

\* the call was made with a map that is not empty on a manifest whose first
\* key was exports, followed by others: exports now holds the map
C15_Witness ==
    /\ cli_pc = "updated"
    /\ returned # <<>>
    /\ package_json.state = "document"
    /\ Len(package_json.doc) > 1
    /\ package_json.doc[1].k = "exports"
    /\ SameMap(package_json.doc[1].v, returned)

(* C16: on a manifest that is missing or is not JSON,                      *)
(* update_package_json_exports logs 'Error updating package.json' and      *)
(* returns: the process does not exit and the manifest is left as it was,  *)
(* a missing one not being created.                                        *)
C16_ErrorLoggedNoExit ==
    [][ ( /\ cli_pc = "direct"
          /\ cli_pc' # "direct"
          /\ package_json.state # "document" )
        => /\ cli_pc' = "updated"
           /\ process_exit' = <<>>
           /\ package_json' = package_json
           /\ Len(console') = Len(console) + 1
           /\ console'[Len(console')].text = ERROR_UPDATING
      ]_vars

\* the call returned on a manifest that does not exist
C16_Witness ==
    /\ cli_pc = "updated"
    /\ package_json.state = "missing"
    /\ returned # <<>>
    /\ console # <<>>
    /\ console[Len(console)].text = ERROR_UPDATING
    /\ process_exit = <<>>

(* C14: a step of extract_exports changes package.json, or logs the        *)
(* outcome of update_package_json_exports, only when options.write is      *)
(* true.                                                                   *)
UpdateLogged(lines) ==
    \E n \in 1..Len(lines) : lines[n].text \in {ERROR_UPDATING, SUCCESSFULLY_UPDATED}

C14_WriteOnlyOnRequest ==
    [][ ( \/ package_json' # package_json
          \/ UpdateLogged(console') /\ ~UpdateLogged(console) )
        => options.write
      ]_vars

\* a run without --write has printed a map that is not empty and ended,
\* over a manifest that holds a document without exports
C14_Witness ==
    /\ cli_pc = "done"
    /\ ~options.write
    /\ returned # <<>>
    /\ package_json.state = "document"
    /\ ~HasKey(package_json.doc, "exports")
    /\ \E n \in 1..Len(console) : console[n].text = "Generated exports object:"

C21_BothKeysPresent ==
    /\ css_i = 0 =>
          \A n \in 1..Len(exports) : Keys(exports[n].v) = <<"types", "import">>
    /\ \A n \in 1..Len(exports) :
          HasKey(exports[n].v, "types") <=> HasKey(exports[n].v, "import")

\* an index module of a directory with a type artifact and no runtime
\* artifact has just been published: its entry has the key import, undefined
C21_Witness ==
    /\ ModuleJustDone
    /\ IsDirIndex(LastModule)
    /\ ~OnDisk(RuntimeArtifact(LastModule))
    /\ HasKey(exports, PublicSubpath(LastModule))
    /\ HasKey(Get(exports, PublicSubpath(LastModule)), "import")
    /\ Get(Get(exports, PublicSubpath(LastModule)), "import") = Undefined

(* C22: an iteration of either loop leaves the keys of the map in their    *)
(* order and adds at most one, at the end, the key of the path it          *)
(* processed; so keys are in the order in which the modules, then the      *)
(* stylesheets, first wrote them, and a write to a key does not move it.   *)
IsPrefix(p, q) == Len(p) <= Len(q) /\ SubSeq(q, 1, Len(p)) = p

C22_KeysInProcessingOrder ==
    /\ IsPrefix(Keys(before), Keys(exports))
    /\ Len(exports) <= Len(before) + 1
    /\ (ModuleJustDone /\ Len(exports) > Len(before))
          => exports[Len(exports)].k = PublicSubpath(LastModule)
    /\ (StyleJustDone /\ Len(exports) > Len(before))
          => exports[Len(exports)].k = DOT_SLASH \o LastStyle
    /\ pc = "returned" => Keys(returned) = Keys(exports)

\* a stylesheet has just been merged into the entry of the first of two
\* modules: the entry is still first
C22_Witness ==
    /\ MergedStyle
    /\ Len(exports) > 1
    /\ exports[1].k = BaseSubpath(LastStyle)
    /\ before[1].k = BaseSubpath(LastStyle)
    /\ HasKey(exports[1].v, "style")
    /\ ~HasKey(before[1].v, "style")

(* C23: the entry at the subpath of an eligible module is, after its       *)
(* iteration, that module's own types and import and nothing else; an      *)
(* ineligible module leaves the map as it was; so in the returned map the  *)
(* import and types at a subpath are those of the last eligible module of  *)
(* the list with that subpath.                                             *)
Eligible(p) ==
    /\ HasTsSuffix(p)
    /\ \/ OnDisk(RuntimeArtifact(p))
       \/ (IsRootIndex(p) \/ IsDirIndex(p)) /\ OnDisk(TypeArtifact(p))

OwnImport(p) ==
    IF OnDisk(RuntimeArtifact(p)) THEN PublicPath(Stem(p) \o DOT_JS) ELSE Undefined

OwnTypes(p) ==
    IF OnDisk(TypeArtifact(p)) THEN PublicPath(Stem(p) \o DOT_D_TS) ELSE Undefined

LastEligibleAt(n) ==
    /\ Eligible(source_file_paths[n])
    /\ \A m \in (n + 1)..Len(source_file_paths) :
          ~ ( /\ Eligible(source_file_paths[m])
              /\ PublicSubpath(source_file_paths[m]) = PublicSubpath(source_file_paths[n]) )

C23_LastModuleWins ==
    /\ (ModuleJustDone /\ Eligible(LastModule))
          => Get(exports, PublicSubpath(LastModule)) =
                << [k |-> "types", v |-> OwnTypes(LastModule)],
                   [k |-> "import", v |-> OwnImport(LastModule)] >>
    /\ (ModuleJustDone /\ ~Eligible(LastModule)) => exports = before
    /\ pc = "returned" =>
          \A n \in 1..Len(source_file_paths) :
              LastEligibleAt(n) =>
                  LET entry == Get(returned, PublicSubpath(source_file_paths[n]))
                  IN  /\ Get(entry, "import") = OwnImport(source_file_paths[n])
                      /\ Get(entry, "types") = OwnTypes(source_file_paths[n])

\* two eligible modules of one subpath were listed, the first with a type
\* artifact and the second without: the returned entry has no types
C23_Witness ==
    /\ pc = "returned"
    /\ Len(source_file_paths) = 2
    /\ PublicSubpath(source_file_paths[1]) = PublicSubpath(source_file_paths[2])
    /\ Eligible(source_file_paths[1])
    /\ Eligible(source_file_paths[2])
    /\ OnDisk(TypeArtifact(source_file_paths[1]))
    /\ ~OnDisk(TypeArtifact(source_file_paths[2]))
    /\ HasKey(returned, PublicSubpath(source_file_paths[2]))
    /\ Get(Get(returned, PublicSubpath(source_file_paths[2])), "types") = Undefined

(* C24: an iteration of the style pass keeps every key the map had, with   *)
(* the import and the types it had.                                        *)
C24_StylePassKeepsModules ==
    StyleJustDone =>
        \A n \in 1..Len(before) :
            /\ HasKey(exports, before[n].k)
            /\ Get(Get(exports, before[n].k), "import") = Get(before[n].v, "import")
            /\ Get(Get(exports, before[n].k), "types") = Get(before[n].v, "types")

(* C25: extract_exports validates the project path, package.json, the      *)
(* source directory and the destination directory in this order; the first *)
(* that fails logs its error and ends the run with exit code 1, with       *)
(* nothing enumerated, synthesized or written, and no step follows; the    *)
(* enumeration is reached only when the four have passed.                  *)
ValidationLines ==
    << "Project path:", "Package JSON path:", "Source path:", "Destination path:" >>

ValidationErrors ==
    << {"No project path provided. Use --project option.",
        "Project directory does not exist."},
       {"package.json file not found."},
       {"Source directory does not exist."},
       {"Destination directory does not exist."} >>

DirectoryExists(dir) == \E f \in Files : StartsWith(f, dir \o SLASH)

\* what the nth validation requires of the options and of the disk
Passes(n) ==
    IF n = 1 THEN options.project # <<>> /\ DirectoryExists(options.project)
    ELSE IF n = 2 THEN package_json.state # "missing"
    ELSE IF n = 3 THEN DirectoryExists(options.project \o SLASH \o options.src)
    ELSE DirectoryExists(options.project \o SLASH \o options.dist)

Validating == cli_pc \in {"project", "package_json", "source", "destination"}

FailedValidation == cli_pc = "exited" /\ Len(console) <= 4

C25_InOrder ==
    /\ process_exit \in {<<>>, <<1>>}
    /\ process_exit = <<1>> <=> cli_pc = "exited"
    /\ Validating =>
          /\ cli_pc = <<"project", "package_json", "source", "destination">>[Len(console) + 1]
          /\ \A n \in 1..Len(console) : console[n].text = ValidationLines[n] /\ Passes(n)
    /\ FailedValidation =>
          /\ console # <<>>
          /\ \A n \in 1..(Len(console) - 1) :
                console[n].text = ValidationLines[n] /\ Passes(n)
          /\ console[Len(console)].text \in ValidationErrors[Len(console)]
          /\ ~Passes(Len(console))
          /\ Idle
    /\ cli_pc \in {"glob", "synthesis", "done"} =>
          /\ Len(console) >= 4
          /\ \A n \in 1..4 : console[n].text = ValidationLines[n] /\ Passes(n)

C25_ValidationsInOrder ==
    /\ []C25_InOrder
    /\ [][ /\ cli_pc # "exited"
           /\ Validating => UNCHANGED <<fs, package_json, synthesis>>
         ]_vars

\* the run ended on the source directory, third, with exit code 1, although
\* --write was given and the destination directory holds files
C25_Witness ==
    /\ cli_pc = "exited"
    /\ process_exit = <<1>>
    /\ Len(console) = 3
    /\ console[3].text = "Source directory does not exist."
    /\ options.write
    /\ Passes(4)
    /\ package_json.state = "document"
    /\ Idle

====
